---- MODULE Spec2Model ----
(***************************************************************************)
(* Model of the AFK presence bot: the persisted BotState record            *)
(* (app/state.py), the three Telethon handlers (app/main.py) run as        *)
(* asyncio tasks that interleave only at their awaits, and the duration    *)
(* formatter (app/utils.py).                                               *)
(***************************************************************************)
EXTENDS Integers, Sequences, FiniteSets, TLC

\* ------------------------------------------------------------------ bounds
MaxTasks == 2       \* events dispatched in one run
MaxClock == 2       \* last clock tick of a run
MaxSender == 2      \* sender identifiers are 1..MaxSender
TicksPerSec == 2    \* clock resolution: ticks per second
MaxDays == 3        \* longest duration handed to format_duration on its own, in days

TaskIds == 1..MaxTasks
Senders == 1..MaxSender
Times == 0..MaxClock

\* ------------------------------------------------------------ text values
\* A text is a sequence of one-character strings.
Digits == <<"0", "1", "2", "3", "4", "5", "6", "7", "8", "9">>

DigitOf(n) == Digits[n + 1]

IsDigit(c) == \E i \in 1..Len(Digits) : Digits[i] = c

DigitVal(c) == CHOOSE i \in 0..9 : Digits[i + 1] = c

IsSpace(c) == c = " "

RECURSIVE lstrip(_)
lstrip(s) == IF s # <<>> /\ IsSpace(Head(s)) THEN lstrip(Tail(s)) ELSE s

RECURSIVE rstrip(_)
rstrip(s) ==
    IF s # <<>> /\ IsSpace(s[Len(s)]) THEN rstrip(SubSeq(s, 1, Len(s) - 1)) ELSE s

\* str.strip(): leading and trailing whitespace removed
strip(s) == rstrip(lstrip(s))

\* ------------------------------------------------------------- timestamps
\* str_datetime that writes the date and drops the time of day
str_datetime_date(t) == <<"T", "0">>

\* A datetime is a number of clock ticks; TicksPerSec ticks make a second.
\* str(datetime): "T<sec>" when the sub-second part is zero, else
\* "T<sec>.<frac>" (Python omits the fraction when microsecond = 0).
str_datetime(t) ==
    IF t % TicksPerSec = 0
    THEN <<"T", DigitOf(t \div TicksPerSec)>>
    ELSE <<"T", DigitOf(t \div TicksPerSec), ".", DigitOf(t % TicksPerSec)>>

\* datetime.fromisoformat accepts exactly the texts str(datetime) produces
iso_ok(s) ==
    \/ Len(s) = 2 /\ s[1] = "T" /\ IsDigit(s[2])
    \/ /\ Len(s) = 4 /\ s[1] = "T" /\ IsDigit(s[2]) /\ s[3] = "."
       /\ IsDigit(s[4]) /\ DigitVal(s[4]) < TicksPerSec

\* fromisoformat that reads whole seconds only
fromisoformat_seconds(s) == DigitVal(s[2]) * TicksPerSec

fromisoformat(s) ==
    IF Len(s) = 2
    THEN DigitVal(s[2]) * TicksPerSec
    ELSE DigitVal(s[2]) * TicksPerSec + DigitVal(s[4])

\* ---------------------------------------------------------------- BotState
BotState(msg, ids, afk, start) ==
    [afk_message |-> msg, notified_ids |-> ids, is_afk |-> afk,
     afk_start_time |-> start]

\* BotState() with every field defaulted; the start time's default factory
\* reads the clock.
DefaultState(now) == BotState(<<>>, <<>>, FALSE, now)

\* Elements of a list
Elems(l) == {l[i] : i \in 1..Len(l)}

\* ------------------------------------------------------------- JSON values
\* One JSON value: t is its type, s its text or list items, n its number,
\* b its boolean.
JVal(t, s, n, b) == [t |-> t, s |-> s, n |-> n, b |-> b]

JAbsent == JVal("absent", <<>>, 0, FALSE)
JNull == JVal("null", <<>>, 0, FALSE)
JStr(s) == JVal("str", s, 0, FALSE)
JInt(n) == JVal("int", <<>>, n, FALSE)
JBool(b) == JVal("bool", <<>>, 0, b)
JList(l) == JVal("list", l, 0, FALSE)

\* The content of the file at config.db_path: "missing" (no file),
\* "invalid" (not JSON: empty or cut short), a JSON document that is not an
\* object ("list", "number", "null", "string"), or an "object" with the four
\* fields (JAbsent for a key that is not there).
FileOf(kind, msg, ids, afk, start) ==
    [kind |-> kind, afk_message |-> msg, notified_ids |-> ids,
     is_afk |-> afk, afk_start_time |-> start]

NoFile == FileOf("missing", JAbsent, JAbsent, JAbsent, JAbsent)
InvalidFile == FileOf("invalid", JAbsent, JAbsent, JAbsent, JAbsent)
NonObjectFile(kind) == FileOf(kind, JAbsent, JAbsent, JAbsent, JAbsent)

NonObjectKinds == {"list", "number", "null", "string"}

\* json.dump(state.model_dump(), default=str): the datetime goes through str
dump(state) ==
    FileOf("object", JStr(state.afk_message), JList(state.notified_ids),
           JBool(state.is_afk), JStr(str_datetime(state.afk_start_time)))

\* --------------------------------------------------------- field validation
\* pydantic's validation of one field of BotState(**data): ok says whether
\* the value is accepted, v is the validated value.
valid_afk_message(j) ==
    IF j.t = "absent" THEN [ok |-> TRUE, v |-> <<>>]
    ELSE IF j.t = "str" THEN [ok |-> TRUE, v |-> j.s]
    ELSE [ok |-> FALSE, v |-> <<>>]

valid_notified_ids(j) ==
    IF j.t = "absent" THEN [ok |-> TRUE, v |-> <<>>]
    ELSE IF j.t = "list" THEN [ok |-> TRUE, v |-> j.s]
    ELSE [ok |-> FALSE, v |-> <<>>]

\* a bool field also takes the numbers 0 and 1
valid_is_afk(j) ==
    IF j.t = "absent" THEN [ok |-> TRUE, v |-> FALSE]
    ELSE IF j.t = "bool" THEN [ok |-> TRUE, v |-> j.b]
    ELSE IF j.t = "int" /\ j.n \in {0, 1} THEN [ok |-> TRUE, v |-> (j.n = 1)]
    ELSE [ok |-> FALSE, v |-> FALSE]

\* valid_afk_start_time without the except ValueError around fromisoformat
valid_afk_start_time_strict(j, now) ==
    IF j.t = "str"
    THEN [ok |-> iso_ok(j.s), v |-> IF iso_ok(j.s) THEN fromisoformat(j.s) ELSE now]
    ELSE IF j.t = "absent" THEN [ok |-> TRUE, v |-> now]
    ELSE IF j.t = "int" THEN [ok |-> TRUE, v |-> j.n * TicksPerSec]
    ELSE [ok |-> FALSE, v |-> now]

\* The start time: a text is parsed before validation and replaced by the
\* clock when fromisoformat raises ValueError; an absent key takes the
\* default factory (the clock); a number is a Unix time in seconds; anything
\* else fails validation.
valid_afk_start_time(j, now) ==
    IF j.t = "str"
    THEN [ok |-> TRUE, v |-> IF iso_ok(j.s) THEN fromisoformat(j.s) ELSE now]
    ELSE IF j.t = "absent" THEN [ok |-> TRUE, v |-> now]
    ELSE IF j.t = "int" THEN [ok |-> TRUE, v |-> j.n * TicksPerSec]
    ELSE [ok |-> FALSE, v |-> now]

\* The exceptions load_state's except clause catches
Caught == {"JSONDecodeError", "ValueError", "FileNotFoundError"}

\* What the body of load_state's try block does with the file: the
\* exception it raises ("none" when it returns) and the state it returns.
try_load(f, now) ==
    IF f.kind = "missing"
    THEN [exc |-> "FileNotFoundError", state |-> DefaultState(now)]
    ELSE IF f.kind = "invalid"
    THEN [exc |-> "JSONDecodeError", state |-> DefaultState(now)]
    ELSE IF f.kind # "object"
    THEN [exc |-> "TypeError", state |-> DefaultState(now)]
    ELSE LET m == valid_afk_message(f.afk_message)
             i == valid_notified_ids(f.notified_ids)
             a == valid_is_afk(f.is_afk)
             t == valid_afk_start_time(f.afk_start_time, now)
         IN IF m.ok /\ i.ok /\ a.ok /\ t.ok
            THEN [exc |-> "none", state |-> BotState(m.v, i.v, a.v, t.v)]
            ELSE [exc |-> "ValueError", state |-> DefaultState(now)]

\* load_state(): raised is the exception that leaves the function ("none"
\* when it returns), state the BotState it returns.
load_state(f, now) ==
    LET r == try_load(f, now)
    IN IF r.exc = "none" THEN [raised |-> "none", state |-> r.state]
       ELSE IF r.exc \in Caught
       THEN [raised |-> "none", state |-> DefaultState(now)]
       ELSE [raised |-> r.exc, state |-> DefaultState(now)]

\* --------------------------------------------------------- format_duration
\* int(x) of the quotient a/b: truncation toward zero
TruncDiv(a, b) == IF a >= 0 THEN a \div b ELSE -((-a) \div b)

Part(n, u) == [n |-> n, u |-> u]

\* format_duration without the "or not parts" of its last test
format_duration_bare(td) ==
    LET total_seconds == TruncDiv(td, TicksPerSec)
        days == total_seconds \div 86400
        hours == (total_seconds % 86400) \div 3600
        minutes == (total_seconds % 3600) \div 60
    IN (IF days > 0 THEN <<[n |-> days, u |-> "d"]>> ELSE <<>>)
       \o (IF hours > 0 THEN <<[n |-> hours, u |-> "h"]>> ELSE <<>>)
       \o (IF minutes > 0 THEN <<[n |-> minutes, u |-> "m"]>> ELSE <<>>)

\* format_duration(td), td in clock ticks; the result is the list of parts
\* that " ".join(parts) writes, each part a number and its unit suffix.
format_duration(td) ==
    LET total_seconds == TruncDiv(td, TicksPerSec)
        days == total_seconds \div 86400
        remainder1 == total_seconds % 86400
        hours == remainder1 \div 3600
        remainder2 == remainder1 % 3600
        minutes == remainder2 \div 60
        p1 == IF days > 0 THEN <<Part(days, "d")>> ELSE <<>>
        p2 == IF hours > 0 THEN p1 \o <<Part(hours, "h")>> ELSE p1
    IN IF minutes > 0 \/ p2 = <<>> THEN p2 \o <<Part(minutes, "m")>> ELSE p2

\* ------------------------------------------------------------------- state
VARIABLES
    file,       \* content of the file at config.db_path
    clock,      \* the wall clock, in ticks
    tasks,      \* one record per dispatched update: the handler's task
    running,    \* the task that holds the event loop, 0 when it is free
    session,    \* number of .afk commands whose save has completed
    io          \* last direct call of the store (load_state or save_state)

vars == <<file, clock, tasks, running, session, io>>

\* Texts that may follow ".afk" in the command (group 1 of the pattern)
RawTexts == {<<>>, <<"a", " ">>}

\* A slot of the task table that no update has been dispatched to
NoTask ==
    [kind |-> "none", pc |-> "none", raw |-> <<>>, sender |-> 0,
     private |-> FALSE, at |-> 0, loaded |-> DefaultState(0),
     state |-> DefaultState(0), saved |-> "no", directive |-> "none",
     to |-> 0, text |-> <<>>, afk_duration |-> 0, duration |-> <<>>,
     reply |-> "none", session |-> 0]

\* The update that starts each handler
NewTask(kind, raw, sender, private) ==
    [NoTask EXCEPT !.kind = kind, !.pc = "start", !.raw = raw,
                   !.sender = sender, !.private = private]

\* Positions at which a handler has ended or will never run again
Final == {"done", "raised", "killed"}

\* Suspends with a further await right after the load
Suspends_after_load(pc) == pc \in {"awaiting", "loaded"}

\* Suspends with a further await between the decision and the save
Suspends_before_save(pc) == pc \in {"awaiting", "tosave"}

\* A handler gives the event loop up only at an await: the awaits of
\* event.edit and event.reply, the last statement of each handler.
Suspends(pc) == pc = "awaiting"

\* The event loop after task t moved to position pc
Loop(t, pc) == IF Suspends(pc) \/ pc \in Final THEN 0 ELSE t

\* Task t may take a step: it holds the event loop, or the loop is free
CanRun(t) == running = t \/ (running = 0 /\ tasks[t].pc \notin Final)

\* The file a run starts with: none (first run), or what an earlier run left:
\* a session in which sender 1 was notified, still active or deactivated.
InitFiles ==
    {NoFile,
     dump(BotState(<<"a">>, <<1>>, TRUE, 0)),
     dump(BotState(<<"a">>, <<1>>, FALSE, 0))}

Init ==
    /\ file \in InitFiles
    /\ clock = 0
    /\ tasks = [t \in TaskIds |-> NoTask]
    /\ running = 0
    /\ session = 0
    /\ io = [op |-> "none", arg |-> DefaultState(0), saved |-> FALSE,
             res |-> [raised |-> "none", state |-> DefaultState(0)]]

\* Telethon creates one task per update; the task starts at once.
Dispatch(t, kind, raw, sender, private) ==
    /\ running = 0
    /\ tasks[t].kind = "none"
    /\ \A u \in TaskIds : u < t => tasks[u].kind # "none"
    /\ tasks' = [tasks EXCEPT ![t] = NewTask(kind, raw, sender, private)]
    /\ running' = t
    /\ UNCHANGED <<file, clock, session, io>>

Tick ==
    /\ clock < MaxClock
    /\ clock' = clock + 1
    /\ UNCHANGED <<file, tasks, running, session, io>>

\* ---------------------------------------------------------- .afk handler
\* NewAfkState that keeps the notified ids of the record on file
NewAfkState_keep(afk_message, now) ==
    BotState(afk_message, load_state(file, now).state.notified_ids, TRUE, now)

\* main.py 44-45: the message is group 1 stripped; a new BotState with the
\* message, is_afk=True, no notified ids and the clock as start time.
NewAfkState(afk_message, now) == BotState(afk_message, <<>>, TRUE, now)

AfkBuild(t) ==
    /\ CanRun(t)
    /\ tasks[t].kind = "afk" /\ tasks[t].pc = "start"
    /\ LET afk_message == strip(tasks[t].raw)
       IN tasks' = [tasks EXCEPT ![t].pc = "tosave", ![t].at = clock,
                                 ![t].text = afk_message,
                                 ![t].state = NewAfkState(afk_message, clock)]
    /\ running' = Loop(t, "tosave")
    /\ UNCHANGED <<file, clock, session, io>>

\* ------------------------------------------------- store access of a handler
\* Load that takes the state the handler before it left in memory instead
\* of reading the file
Load_cached(t) ==
    /\ CanRun(t)
    /\ \/ tasks[t].kind = "unafk" /\ tasks[t].pc = "start"
       \/ tasks[t].kind = "msg" /\ tasks[t].pc = "toload"
    /\ LET state == IF t > 1 THEN tasks[t - 1].state
                    ELSE load_state(file, clock).state
       IN tasks' = [tasks EXCEPT ![t].pc = "loaded", ![t].loaded = state,
                                 ![t].state = state, ![t].session = session]
    /\ running' = Loop(t, "loaded")
    /\ UNCHANGED <<file, clock, session, io>>

\* main.py 67 and 104: state = load_state(). A TypeError that load_state
\* does not catch ends the handler.
Load(t) ==
    /\ CanRun(t)
    /\ \/ tasks[t].kind = "unafk" /\ tasks[t].pc = "start"
       \/ tasks[t].kind = "msg" /\ tasks[t].pc = "toload"
    /\ LET r == load_state(file, clock)
           pc == IF r.raised = "none" THEN "loaded" ELSE "raised"
       IN /\ tasks' = [tasks EXCEPT ![t].pc = pc,
                                    ![t].loaded = r.state,
                                    ![t].state = r.state,
                                    ![t].session = session]
          /\ running' = Loop(t, pc)
    /\ UNCHANGED <<file, clock, session, io>>

\* AfterSave that swallows the exception
AfterSave_swallowed(ok) == "saved"

\* Where a handler goes after save_state: on, or out with the exception
AfterSave(ok) == IF ok THEN "saved" ELSE "raised"

\* main.py 46, 71 and 116: save_state(state) rewrites the file.
Save(t) ==
    /\ CanRun(t)
    /\ tasks[t].pc = "tosave"
    /\ file' = dump(tasks[t].state)
    /\ session' = IF tasks[t].kind = "afk" THEN session + 1 ELSE session
    /\ tasks' = [tasks EXCEPT ![t].pc = AfterSave(TRUE), ![t].saved = "ok",
                              ![t].session = session']
    /\ running' = Loop(t, AfterSave(TRUE))
    /\ UNCHANGED <<clock, io>>

\* save_state raises OSError: from open() (the file is left as it was), or
\* from the write after open(path, "w") has emptied the file.
SaveFails(t, at_open) ==
    /\ CanRun(t)
    /\ tasks[t].pc = "tosave"
    /\ file' = IF at_open THEN file ELSE InvalidFile
    /\ tasks' = [tasks EXCEPT ![t].pc = AfterSave(FALSE),
                              ![t].saved = "failed"]
    /\ running' = Loop(t, AfterSave(FALSE))
    /\ UNCHANGED <<clock, session, io>>

\* main.py 55, 77, 83 and 128: the awaited edit or reply completes ...
ReplyDone(t) ==
    /\ CanRun(t)
    /\ tasks[t].pc = "awaiting"
    /\ tasks' = [tasks EXCEPT ![t].pc = "done", ![t].reply = "delivered"]
    /\ running' = Loop(t, "done")
    /\ UNCHANGED <<file, clock, session, io>>

\* ... or raises (network error, flood wait, the peer blocked the account)
ReplyFails(t) ==
    /\ CanRun(t)
    /\ tasks[t].pc = "awaiting"
    /\ tasks' = [tasks EXCEPT ![t].pc = "raised", ![t].reply = "failed"]
    /\ running' = Loop(t, "raised")
    /\ UNCHANGED <<file, clock, session, io>>

\* A handler that the end of the process cut short: its local variables are
\* gone; what it wrote or sent before stays.
Killed(task) ==
    [task EXCEPT !.pc = "killed", !.loaded = DefaultState(0),
                 !.state = DefaultState(0)]

\* The process stops and starts again: every handler in flight is gone,
\* the file stays.
Restart ==
    /\ \E t \in TaskIds : tasks[t].kind # "none" /\ tasks[t].pc \notin Final
    /\ tasks' = [t \in TaskIds |->
                    IF tasks[t].kind # "none" /\ tasks[t].pc \notin Final
                    THEN Killed(tasks[t])
                    ELSE tasks[t]]
    /\ running' = 0
    /\ UNCHANGED <<file, clock, session, io>>

\* ---------------------------------------------------------- .afk handler
\* main.py 48-55: the confirmation, with the message when there is one
AfkConfirm(t) ==
    /\ CanRun(t)
    /\ tasks[t].kind = "afk" /\ tasks[t].pc = "saved"
    /\ tasks' = [tasks EXCEPT ![t].pc = "awaiting",
                              ![t].directive = "activated",
                              ![t].reply = "pending"]
    /\ running' = Loop(t, "awaiting")
    /\ UNCHANGED <<file, clock, session, io>>

\* -------------------------------------------------------- .unafk handler
\* UnafkActive that takes the active branch whatever the state
UnafkActive_always(state) == TRUE

\* main.py 69: which branch .unafk takes
UnafkActive(state) == state.is_afk

\* Deactivated that also empties the notified ids
Deactivated_cleared(state) ==
    [state EXCEPT !.is_afk = FALSE, !.notified_ids = <<>>]

\* main.py 70: state.is_afk = False
Deactivated(state) == [state EXCEPT !.is_afk = FALSE]

\* main.py 69-70 and 81-83
UnafkBranch(t) ==
    /\ CanRun(t)
    /\ tasks[t].kind = "unafk" /\ tasks[t].pc = "loaded"
    /\ IF UnafkActive(tasks[t].state)
       THEN /\ tasks' = [tasks EXCEPT ![t].pc = "tosave",
                                      ![t].state = Deactivated(tasks[t].state)]
            /\ running' = Loop(t, "tosave")
       ELSE /\ tasks' = [tasks EXCEPT ![t].pc = "awaiting",
                                      ![t].directive = "not_active",
                                      ![t].reply = "pending"]
            /\ running' = Loop(t, "awaiting")
    /\ UNCHANGED <<file, clock, session, io>>

\* Elapsed with the operands exchanged
Elapsed_reversed(state, now) == state.afk_start_time - now

\* main.py 74: now - state.afk_start_time
Elapsed(state, now) == now - state.afk_start_time

\* main.py 73-80
UnafkConfirm(t) ==
    /\ CanRun(t)
    /\ tasks[t].kind = "unafk" /\ tasks[t].pc = "saved"
    /\ LET afk_duration == Elapsed(tasks[t].state, clock)
       IN tasks' = [tasks EXCEPT ![t].pc = "awaiting",
                                 ![t].directive = "deactivated",
                                 ![t].afk_duration = afk_duration,
                                 ![t].duration = format_duration(afk_duration),
                                 ![t].reply = "pending"]
    /\ running' = Loop(t, "awaiting")
    /\ UNCHANGED <<file, clock, session, io>>

\* ------------------------------------------------ incoming-message handler
\* IsPrivate without the peer test
IsPrivate_any(task) == TRUE

\* main.py 100: isinstance(event.peer_id, PeerUser)
IsPrivate(task) == task.private

\* main.py 100-103
MsgFilter(t) ==
    /\ CanRun(t)
    /\ tasks[t].kind = "msg" /\ tasks[t].pc = "start"
    /\ LET pc == IF IsPrivate(tasks[t]) THEN "toload" ELSE "done"
       IN /\ tasks' = [tasks EXCEPT ![t].pc = pc]
          /\ running' = Loop(t, pc)
    /\ UNCHANGED <<file, clock, session, io>>

\* AlreadyNotified that looks at the first entry of the list only
AlreadyNotified_first(state, sender_id) ==
    state.notified_ids # <<>> /\ Head(state.notified_ids) = sender_id

\* AlreadyNotified without the membership test
AlreadyNotified_unchecked(state, sender_id) == FALSE

\* main.py 111: sender_id in state.notified_ids
AlreadyNotified(state, sender_id) == sender_id \in Elems(state.notified_ids)

\* Notified that leaves the list as it is
Notified_forgot(state, sender_id) == state

\* main.py 115: state.notified_ids.append(sender_id)
Notified(state, sender_id) ==
    [state EXCEPT !.notified_ids = Append(state.notified_ids, sender_id)]

\* main.py 106-115
MsgCheck(t) ==
    /\ CanRun(t)
    /\ tasks[t].kind = "msg" /\ tasks[t].pc = "loaded"
    /\ LET state == tasks[t].state
           sender_id == tasks[t].sender
           pc == IF ~state.is_afk THEN "done"
                 ELSE IF AlreadyNotified(state, sender_id) THEN "done"
                 ELSE "tosave"
       IN /\ tasks' = [tasks EXCEPT ![t].pc = pc,
                          ![t].state = IF pc = "tosave"
                                       THEN Notified(state, sender_id)
                                       ELSE state]
          /\ running' = Loop(t, pc)
    /\ UNCHANGED <<file, clock, session, io>>

\* ReplyTo that answers the first sender of the notified list
ReplyTo_first(task) == Head(task.state.notified_ids)

\* main.py 128: event.reply answers in the chat of the event
ReplyTo(task) == task.sender

\* main.py 118-128: the reply to the sender, with the reason when there is
\* one and the formatted duration
MsgReply(t) ==
    /\ CanRun(t)
    /\ tasks[t].kind = "msg" /\ tasks[t].pc = "saved"
    /\ LET afk_duration == Elapsed(tasks[t].state, clock)
       IN tasks' = [tasks EXCEPT ![t].pc = "awaiting",
                                 ![t].directive = "afk_reply",
                                 ![t].to = ReplyTo(tasks[t]),
                                 ![t].text = tasks[t].state.afk_message,
                                 ![t].afk_duration = afk_duration,
                                 ![t].duration = format_duration(afk_duration),
                                 ![t].reply = "pending"]
    /\ running' = Loop(t, "awaiting")
    /\ UNCHANGED <<file, clock, session, io>>

\* ------------------------------------------------------------ the program
Step(t) ==
    \/ AfkBuild(t) \/ AfkConfirm(t)
    \/ Load(t) \/ Save(t)
    \/ UnafkBranch(t) \/ UnafkConfirm(t)
    \/ MsgFilter(t) \/ MsgCheck(t) \/ MsgReply(t)
    \/ ReplyDone(t) \/ ReplyFails(t)

NewUpdate(t) ==
    \/ \E raw \in RawTexts : Dispatch(t, "afk", raw, 0, FALSE)
    \/ Dispatch(t, "unafk", <<>>, 0, FALSE)
    \/ \E s \in Senders, p \in BOOLEAN : Dispatch(t, "msg", <<>>, s, p)

Next ==
    \/ \E t \in TaskIds : NewUpdate(t)
    \/ \E t \in TaskIds : Step(t)
    \/ Tick
    \/ Restart

\* Every write to the file succeeds
Spec == Init /\ [][Next]_vars

NextFault ==
    \/ Next
    \/ \E t \in TaskIds, at_open \in BOOLEAN : SaveFails(t, at_open)

\* Writes to the file may fail
SpecFault == Init /\ [][NextFault]_vars

\* A file that something else than save_state left: an active record whose
\* start time is a text that is no timestamp
EditedFiles ==
    {FileOf("object", JStr(<<"a">>), JList(<<1>>), JBool(TRUE), JStr(<<"a">>))}

InitEdited ==
    /\ file \in EditedFiles
    /\ clock = 0
    /\ tasks = [t \in TaskIds |-> NoTask]
    /\ running = 0
    /\ session = 0
    /\ io = [op |-> "none", arg |-> DefaultState(0), saved |-> FALSE,
             res |-> [raised |-> "none", state |-> DefaultState(0)]]

\* The program started on a file that may have been edited by hand
SpecEdited == InitEdited /\ [][NextFault]_vars

\* A file an .afk of an earlier run left, with nobody notified yet
FreshFiles == {dump(BotState(<<"a">>, <<>>, TRUE, 0))}

InitFresh ==
    /\ file \in FreshFiles
    /\ clock = 0
    /\ tasks = [t \in TaskIds |-> NoTask]
    /\ running = 0
    /\ session = 0
    /\ io = [op |-> "none", arg |-> DefaultState(0), saved |-> FALSE,
             res |-> [raised |-> "none", state |-> DefaultState(0)]]

\* The program started in a session in which nobody was notified yet
SpecFresh == InitFresh /\ [][NextFault]_vars

\* ------------------------------------------------- the store on its own
\* Contents the file may have when load_state reads it: what save_state
\* writes, and what anything else may have left at config.db_path.
FileContents ==
    {NoFile, InvalidFile}
    \cup {NonObjectFile(k) : k \in NonObjectKinds}
    \cup {FileOf("object", m, i, a, t) :
            m \in {JAbsent, JStr(<<"a">>), JInt(1)},
            i \in {JAbsent, JList(<<1>>), JNull},
            a \in {JAbsent, JBool(TRUE), JBool(FALSE), JInt(1), JNull},
            t \in {JAbsent, JStr(str_datetime(1)), JStr(<<"a">>),
                   JNull, JInt(1)}}

\* The BotState values handed to save_state
ValidStates ==
    {BotState(m, i, a, t) :
        m \in {<<>>, <<"a">>, <<"a", " ">>},
        i \in {<<>>, <<1>>, <<2, 1>>},
        a \in BOOLEAN,
        t \in Times}

NoCall ==
    [op |-> "none", arg |-> DefaultState(0), saved |-> FALSE,
     res |-> [raised |-> "none", state |-> DefaultState(0)]]

InitStore ==
    /\ file \in FileContents
    /\ clock = 0
    /\ tasks = [t \in TaskIds |-> NoTask]
    /\ running = 0
    /\ session = 0
    /\ io = NoCall

\* load_state() is called
StoreLoad ==
    /\ io' = [io EXCEPT !.op = "load", !.res = load_state(file, clock)]
    /\ UNCHANGED <<file, clock, tasks, running, session>>

\* save_state(state) is called
StoreSave(state) ==
    /\ file' = dump(state)
    /\ io' = [io EXCEPT !.op = "save", !.arg = state, !.saved = TRUE]
    /\ UNCHANGED <<clock, tasks, running, session>>

\* The state load_state returns is saved again as it is
StoreResave ==
    LET r == load_state(file, clock)
    IN /\ r.raised = "none"
       /\ file' = dump(r.state)
       /\ io' = [io EXCEPT !.op = "resave", !.arg = r.state, !.saved = TRUE,
                           !.res = r]
       /\ UNCHANGED <<clock, tasks, running, session>>

NextStore ==
    \/ StoreLoad
    \/ \E state \in ValidStates : StoreSave(state)
    \/ StoreResave
    \/ Tick

\* load_state and save_state applied to any file content
SpecStore == InitStore /\ [][NextStore]_vars

\* ---------------------------------------------- format_duration on its own
\* Durations handed to format_duration, in ticks: whole days, hours, minutes
\* and seconds up to MaxDays days, with any sub-second part.
Durations ==
    {(d * 86400 + h * 3600 + m * 60 + sec) * TicksPerSec + frac :
        d \in 0..MaxDays, h \in {0, 1, 2, 4, 23}, m \in {0, 1, 3, 5, 59},
        sec \in {0, 1, 59}, frac \in {0, TicksPerSec - 1}}

InitFormat ==
    /\ file = NoFile
    /\ clock = 0
    /\ tasks = [t \in TaskIds |-> NoTask]
    /\ running = 0
    /\ session = 0
    /\ io \in {[op |-> "none", td |-> td, out |-> <<>>] : td \in Durations}

\* format_duration(td) is called
Format ==
    /\ io.op = "none"
    /\ io' = [io EXCEPT !.op = "format", !.out = format_duration(io.td)]
    /\ UNCHANGED <<file, clock, tasks, running, session>>

NextFormat == Format

\* format_duration applied to every duration of Durations
SpecFormat == InitFormat /\ [][NextFormat]_vars

\* ================================================================= claims
\* What the file holds, as load_state reads it
Persisted == load_state(file, clock).state

\* The handler of task t has run its synchronous part to the end
Handled(t) ==
    /\ tasks[t].kind # "none"
    /\ tasks[t].pc \in {"awaiting", "done", "raised"}

\* Task t is an incoming-message handler that found the state active and
\* the sender not yet notified
Notifies(t) ==
    /\ tasks[t].kind = "msg" /\ tasks[t].private
    /\ tasks[t].loaded.is_afk
    /\ tasks[t].sender \notin Elems(tasks[t].loaded.notified_ids)

\* Task t is a private incoming-message handler that found the state active
\* and the sender already notified
Suppressed(t) ==
    /\ tasks[t].kind = "msg" /\ tasks[t].private
    /\ tasks[t].loaded.is_afk
    /\ tasks[t].sender \in Elems(tasks[t].loaded.notified_ids)

\* C1: at-most-once notification. Within one session (from one completed
\* .afk to the next) no two auto-reply directives go to the same sender, and
\* a private message from a sender who is already in notified_ids while
\* active ends with no directive and without calling save_state.
C1_AtMostOnce ==
    /\ \A t1, t2 \in TaskIds :
          (/\ t1 # t2
           /\ tasks[t1].directive = "afk_reply"
           /\ tasks[t2].directive = "afk_reply"
           /\ tasks[t1].session = tasks[t2].session)
          => tasks[t1].to # tasks[t2].to
    /\ \A t \in TaskIds :
          (Handled(t) /\ Suppressed(t))
          => /\ tasks[t].pc = "done"
             /\ tasks[t].directive = "none"
             /\ tasks[t].saved = "no"
             /\ tasks[t].state = tasks[t].loaded

\* Two private messages of one sender were handled in one session: the
\* first was answered, the second suppressed.
C1_Witness ==
    \E t1, t2 \in TaskIds :
        /\ t1 # t2
        /\ tasks[t1].sender = tasks[t2].sender
        /\ tasks[t1].session = tasks[t2].session
        /\ tasks[t1].directive = "afk_reply"
        /\ Handled(t2) /\ Suppressed(t2)

\* Task t has loaded the state and has neither saved nor ended
MidStore(t) == tasks[t].pc \in {"loaded", "tosave"}

\* In this step task u reads or writes the file
StoreAccess(u) ==
    \/ tasks[u].pc \in {"start", "toload"} /\ tasks'[u].pc \in {"loaded", "raised"}
    \/ tasks[u].saved = "no" /\ tasks'[u].saved # "no"

\* Task t appended its sender to the list it loaded, and saved the list or
\* is about to (a restart has not ended it before its save)
Passed(t) ==
    /\ tasks[t].kind = "msg"
    /\ Len(tasks[t].state.notified_ids) > Len(tasks[t].loaded.notified_ids)
    /\ tasks[t].saved = "ok" \/ MidStore(t)

C2_NeverBothPass ==
    \A t1, t2 \in TaskIds :
        (/\ t1 # t2 /\ Passed(t1) /\ Passed(t2)
         /\ tasks[t1].session = tasks[t2].session)
        => tasks[t1].sender # tasks[t2].sender

C2_NoInterleaving ==
    \A t, u \in TaskIds : (t # u /\ MidStore(t)) => ~StoreAccess(u)

\* C2: handlers run as tasks that interleave at their awaits. Two messages
\* of one sender in one session never both pass the not-yet-notified check,
\* and while one handler is between its load and its save no other handler
\* reads or writes the file.
C2_Serialized == []C2_NeverBothPass /\ [][C2_NoInterleaving]_vars

\* Two handlers of messages from one sender are in flight together: one
\* awaits its reply, the other has loaded the state.
C2_Witness ==
    \E t1, t2 \in TaskIds :
        /\ t1 # t2
        /\ tasks[t1].kind = "msg" /\ tasks[t2].kind = "msg"
        /\ tasks[t1].sender = tasks[t2].sender
        /\ tasks[t1].pc = "awaiting" /\ Passed(t1)
        /\ tasks[t2].pc = "loaded"

\* In this step the save of task t completes
SaveCompletes(t) == tasks[t].saved = "no" /\ tasks'[t].saved = "ok"

\* Every identifier in the persisted list of an active state was put there
\* by a message handled in the current session (or was there at the start).
C3_NoCarryOver ==
    (session > 0 /\ Persisted.is_afk) =>
        \A id \in Elems(Persisted.notified_ids) :
            \E t \in TaskIds :
                /\ tasks[t].kind = "msg" /\ tasks[t].sender = id
                /\ tasks[t].saved = "ok" /\ tasks[t].session = session

C3_FreshRecord ==
    \A t \in TaskIds :
        (tasks[t].kind = "afk" /\ SaveCompletes(t)) =>
            LET r == load_state(file', clock')
            IN /\ r.raised = "none"
               /\ r.state.is_afk
               /\ r.state.afk_message = tasks[t].text
               /\ r.state.afk_start_time = tasks[t].at
               /\ r.state.notified_ids = <<>>

\* C3: session reset. When the save of an .afk command completes, whatever
\* the file held before, the persisted state is active, has the command's
\* message, the time of the command as start time and no notified ids; no
\* identifier of an earlier session is in the list of the new session.
C3_SessionReset == []C3_NoCarryOver /\ [][C3_FreshRecord]_vars

\* An .afk command has been saved over a record that had a notified sender.
C3_Witness ==
    \E t \in TaskIds :
        /\ tasks[t].kind = "afk" /\ tasks[t].saved = "ok"
        /\ tasks[t].text = <<"a">>
        /\ session = 1 /\ clock > 0
        /\ Persisted.is_afk /\ Persisted.notified_ids = <<>>
        /\ Persisted.afk_message = <<"a">>

\* C4: exactly-once notification. Every handler that found the state active
\* and its sender not yet notified, and has ended, has delivered its reply.
C4_ExactlyOnce ==
    \A t \in TaskIds :
        (tasks[t].kind = "msg" /\ tasks[t].saved = "ok" /\ tasks[t].pc \in Final)
        => tasks[t].reply = "delivered"

\* C4 fails where the auto-reply raises, or the process stops during the
\* await, after the sender was saved as notified: the handler has ended and
\* the reply was not delivered.

\* In this step the file changes
FileChanges == file' # file

C5_Decision ==
    \A t \in TaskIds :
        (tasks[t].kind = "msg" /\ Handled(t)) =>
            /\ tasks[t].directive = "afk_reply" <=> Notifies(t)
            /\ tasks[t].saved = "ok" <=> Notifies(t)
            /\ tasks[t].saved # "failed"
            /\ Notifies(t) => tasks[t].to = tasks[t].sender

C5_Frame ==
    /\ FileChanges => \E t \in TaskIds : SaveCompletes(t)
    /\ \A t \in TaskIds :
          (tasks[t].kind = "msg" /\ SaveCompletes(t)) =>
              LET old == load_state(file, clock).state
                  new == load_state(file', clock').state
              IN /\ Notifies(t)
                 /\ old = tasks[t].loaded
                 /\ Elems(new.notified_ids) =
                        Elems(old.notified_ids) \cup {tasks[t].sender}
                 /\ new.afk_message = old.afk_message
                 /\ new.is_afk = old.is_afk
                 /\ new.afk_start_time = old.afk_start_time

\* C5: an incoming-message handler emits a reply directive and saves exactly
\* when the message is private, the loaded state is active and the sender
\* is not in notified_ids; its save adds the sender to the persisted list
\* and leaves message, is_afk and start time as they were; in every other
\* case it emits nothing and the file is not written.
C5_ReplyIff == []C5_Decision /\ [][C5_Frame]_vars

\* A group message was ignored while the state was active and its sender
\* not notified, and a private message of that sender was answered.
C5_Witness ==
    \E t1, t2 \in TaskIds :
        /\ tasks[t1].kind = "msg" /\ ~tasks[t1].private
        /\ tasks[t1].pc = "done" /\ tasks[t1].sender = 2
        /\ tasks[t2].kind = "msg" /\ tasks[t2].sender = 2
        /\ Handled(t2) /\ Notifies(t2)
        /\ Persisted.notified_ids = <<1, 2>>

\* In this step task t emits its directive
Emits(t) == tasks[t].directive = "none" /\ tasks'[t].directive # "none"

C6_Decision ==
    \A t \in TaskIds :
        (tasks[t].kind = "unafk" /\ Handled(t) /\ tasks[t].loaded.is_afk) =>
            /\ tasks[t].directive = "deactivated"
            /\ tasks[t].saved = "ok"

C6_Frame ==
    \A t \in TaskIds :
        /\ (tasks[t].kind = "unafk" /\ SaveCompletes(t)) =>
              LET old == load_state(file, clock).state
                  new == load_state(file', clock').state
              IN /\ old.is_afk
                 /\ ~new.is_afk
                 /\ new.afk_message = old.afk_message
                 /\ new.notified_ids = old.notified_ids
                 /\ new.afk_start_time = old.afk_start_time
        /\ (tasks[t].kind = "unafk" /\ Emits(t) /\ tasks[t].loaded.is_afk) =>
              /\ tasks'[t].afk_duration =
                     clock - tasks[t].loaded.afk_start_time
              /\ tasks'[t].duration = format_duration(tasks'[t].afk_duration)

\* C6: .unafk on an active state saves the record with is_afk false and
\* message, notified ids and start time as they were, and emits one
\* deactivation directive whose duration is the formatted value of the
\* clock minus the loaded start time.
C6_Deactivate == []C6_Decision /\ [][C6_Frame]_vars

\* .unafk was confirmed after time had passed, on a record with a message
\* and a notified sender.
C6_Witness ==
    \E t \in TaskIds :
        /\ tasks[t].kind = "unafk" /\ tasks[t].directive = "deactivated"
        /\ tasks[t].afk_duration > 0
        /\ tasks[t].duration = <<Part(0, "m")>>
        /\ ~Persisted.is_afk
        /\ Persisted.notified_ids # <<>> /\ Persisted.afk_message # <<>>

\* In this step task t leaves the branch of .unafk (a restart aside)
Branches(t) ==
    /\ tasks[t].kind = "unafk" /\ tasks[t].pc = "loaded"
    /\ tasks'[t].pc \notin {"loaded", "killed"}

C7_NoOp ==
    \A t \in TaskIds :
        (Branches(t) /\ ~tasks[t].loaded.is_afk) =>
            /\ tasks'[t].directive = "not_active"
            /\ tasks'[t].saved = "no"
            /\ file' = file
            /\ ~load_state(file', clock').state.is_afk

C7_NeverSaves ==
    \A t \in TaskIds :
        (tasks[t].kind = "unafk" /\ ~tasks[t].loaded.is_afk
            /\ tasks[t].pc \in {"loaded", "awaiting", "done", "raised"}) =>
            tasks[t].saved = "no"

\* C7: .unafk when the loaded state is inactive (also when there is no
\* file) emits the not-active directive, does not call save_state and
\* leaves the file, and so is_afk = false and the other fields, as it was.
C7_InactiveNoOp == []C7_NeverSaves /\ [][C7_NoOp]_vars

\* .unafk was answered with not-active while there was no file at all.
C7_Witness ==
    \E t \in TaskIds :
        /\ tasks[t].kind = "unafk" /\ tasks[t].directive = "not_active"
        /\ file = NoFile

\* C10: reply contingent on persistence. A handler whose save_state raised
\* has ended with the exception and emitted no directive; an activation,
\* deactivation or auto-reply directive is emitted only by a handler whose
\* save has completed.
C10_ReplyAfterSave ==
    \A t \in TaskIds :
        /\ tasks[t].saved = "failed" =>
              /\ tasks[t].pc = "raised"
              /\ tasks[t].directive = "none"
              /\ tasks[t].reply = "none"
        /\ tasks[t].directive \in {"activated", "deactivated", "afk_reply"}
              => tasks[t].saved = "ok"

\* The saves of an .afk, of an .unafk and of a notifying message can each
\* be seen failing; here one failed save and one completed save with its
\* directive.
C10_Witness ==
    \E t1, t2 \in TaskIds :
        /\ tasks[t1].saved = "failed" /\ tasks[t1].kind = "msg"
        /\ tasks[t2].saved = "ok" /\ tasks[t2].directive = "afk_reply"

\* The file is not a record load_state can take as it is: there is none,
\* it is not JSON, it is JSON but not an object, or a field has a value of
\* the wrong type.
Corrupt(f) ==
    \/ f.kind # "object"
    \/ f.afk_message.t \notin {"absent", "str"}
    \/ f.notified_ids.t \notin {"absent", "list"}
    \/ f.is_afk.t \notin {"absent", "bool", "int"}
    \/ f.afk_start_time.t \notin {"absent", "str", "int"}

\* C8: default on corruption. load_state never lets an error out, and for a
\* missing file, malformed content (also JSON that is not an object) and a
\* field that fails validation it returns the default state: inactive,
\* empty message, no notified ids.
C8_DefaultOnCorruption ==
    io.op = "load" =>
        /\ io.res.raised = "none"
        /\ Corrupt(file) =>
              /\ ~io.res.state.is_afk
              /\ io.res.state.afk_message = <<>>
              /\ io.res.state.notified_ids = <<>>

C9_SaveLoad ==
    (io.op = "load" /\ io.saved) =>
        /\ io.res.raised = "none"
        /\ io.res.state.afk_message = io.arg.afk_message
        /\ Elems(io.res.state.notified_ids) = Elems(io.arg.notified_ids)
        /\ io.res.state.is_afk = io.arg.is_afk
        /\ io.res.state.afk_start_time \div TicksPerSec
               = io.arg.afk_start_time \div TicksPerSec

C9_LoadSave ==
    io'.op = "resave" => load_state(file', clock') = load_state(file, clock)

\* C9: round trip. A load after a save returns the saved message, the saved
\* set of notified ids, the saved is_afk and a start time equal to the saved
\* one to the second; saving the state a load returned does not change what
\* the next load returns.
C9_RoundTrip == []C9_SaveLoad /\ [][C9_LoadSave]_vars

\* A state with a message, two notified ids and a start time with a
\* sub-second part was saved and loaded back at a later time.
C9_Witness ==
    /\ io.op = "load" /\ io.saved
    /\ io.arg.afk_message = <<"a", " ">>
    /\ io.arg.notified_ids = <<2, 1>>
    /\ io.arg.is_afk
    /\ io.arg.afk_start_time = 1
    /\ clock = MaxClock
    /\ io.res.state = io.arg

\* The reference of C11 for s whole seconds: the three units from s, in the
\* order days, hours, minutes, each when it is not zero, minutes also when
\* nothing larger is listed.
DurationRef(s) ==
    LET days == s \div 86400
        hours == (s % 86400) \div 3600
        minutes == (s % 3600) \div 60
        units == <<Part(days, "d"), Part(hours, "h"), Part(minutes, "m")>>
        listed(i) == units[i].n # 0 \/ (i = 3 /\ days = 0 /\ hours = 0)
    IN SelectSeq(units, LAMBDA p : \E i \in 1..3 : units[i] = p /\ listed(i))

\* C11: duration formatting. For every duration of s whole seconds (any
\* sub-second part discarded) format_duration returns the reference; the
\* result is never empty, below 60 s it is 0m, 7500 s gives 2h 5m, 86580 s
\* gives 1d 3m and 273600 s gives 3d 4h.
C11_DurationFormat ==
    io.op = "format" =>
        LET s == io.td \div TicksPerSec
        IN /\ io.out = DurationRef(s)
           /\ io.out # <<>>
           /\ s < 60 => io.out = <<Part(0, "m")>>
           /\ s = 7500 => io.out = <<Part(2, "h"), Part(5, "m")>>
           /\ s = 86580 => io.out = <<Part(1, "d"), Part(3, "m")>>
           /\ s = 273600 => io.out = <<Part(3, "d"), Part(4, "h")>>

\* 59.5 s has been formatted as 0m.
C11_Witness ==
    /\ io.op = "format"
    /\ io.td = 59 * TicksPerSec + (TicksPerSec - 1)
    /\ io.out = <<Part(0, "m")>>

\* In this step task t's directive, once emitted, is replaced or readdressed
Reemits(t) ==
    /\ tasks[t].directive # "none"
    /\ \/ tasks'[t].directive # tasks[t].directive
       \/ tasks'[t].to # tasks[t].to

C12_OnePerEvent ==
    \A t \in TaskIds :
        /\ (Handled(t) /\ tasks[t].kind = "afk" /\ tasks[t].saved = "ok") =>
              tasks[t].directive = "activated" /\ tasks[t].to = 0
        /\ (Handled(t) /\ tasks[t].kind = "unafk" /\ tasks[t].saved # "failed") =>
              /\ tasks[t].directive \in {"deactivated", "not_active"}
              /\ tasks[t].to = 0
        /\ tasks[t].kind = "msg" =>
              /\ tasks[t].directive \in {"none", "afk_reply"}
              /\ tasks[t].directive = "afk_reply" =>
                    tasks[t].to = tasks[t].sender
        /\ tasks[t].directive = "none" <=> tasks[t].reply = "none"

\* C12: each handled event yields zero or one directive. .afk and .unafk
\* whose save did not fail yield exactly one, an edit of the triggering
\* message; an incoming message yields at most one, addressed to its own
\* sender; a directive once emitted is never followed by another of the
\* same handler.
C12_ZeroOrOne == []C12_OnePerEvent /\ [][\A t \in TaskIds : ~Reemits(t)]_vars

\* A message of sender 2 was answered, and the reply delivered, after
\* sender 1 had been notified.
C12_Witness ==
    \E t \in TaskIds :
        /\ tasks[t].directive = "afk_reply" /\ tasks[t].to = 2
        /\ tasks[t].state.notified_ids = <<1, 2>>
        /\ tasks[t].reply = "delivered"

\* The start time the most recent completed .afk wrote: that of the file the
\* run started with (0) until an .afk of this run has been saved
LastActivate ==
    IF session = 0 THEN {0}
    ELSE {tasks[t].at : t \in {u \in TaskIds : /\ tasks[u].kind = "afk"
                                                /\ tasks[u].saved = "ok"
                                                /\ tasks[u].session = session}}

C13_StartTime == Persisted.is_afk => Persisted.afk_start_time \in LastActivate

C13_Kept ==
    \A t \in TaskIds :
        /\ (tasks[t].kind \in {"msg", "unafk"} /\ SaveCompletes(t)) =>
              load_state(file', clock').state.afk_start_time
                  = load_state(file, clock).state.afk_start_time
        /\ (Emits(t) /\ tasks'[t].directive \in {"deactivated", "afk_reply"}) =>
              /\ clock - tasks'[t].afk_duration \in LastActivate
              /\ tasks'[t].duration = format_duration(tasks'[t].afk_duration)

\* C13: duration accounting. While the state is active the persisted start
\* time is the time of the most recent .afk; the saves of incoming messages
\* and of .unafk leave it as it was; the duration a deactivation or an
\* auto-reply reports is the clock minus the time of the most recent .afk.
C13_Duration == []C13_StartTime /\ [][C13_Kept]_vars

\* An .afk at tick 1 (a start time with a sub-second part), then a message
\* answered at tick 2 with a duration of one tick.
C13_Witness ==
    \E t1, t2 \in TaskIds :
        /\ tasks[t1].kind = "afk" /\ tasks[t1].at = 1 /\ tasks[t1].saved = "ok"
        /\ tasks[t2].directive = "afk_reply" /\ tasks[t2].afk_duration = 1
        /\ Persisted.afk_start_time = 1

\* The record is an object whose message, notified ids and is_afk are of
\* their own types
OtherwiseValid(f) ==
    /\ f.kind = "object"
    /\ f.afk_message.t = "str"
    /\ f.notified_ids.t = "list"
    /\ f.is_afk.t = "bool"

\* The start time is a text that is not an ISO timestamp
BadText(j) == j.t = "str" /\ ~iso_ok(j.s)

\* In this step load_state is called
Loads == io'.op = "load" /\ clock' = clock /\ file' = file

\* load_state returned the record's three fields with the clock as start
Recovered ==
    /\ io'.res.raised = "none"
    /\ io'.res.state =
          BotState(file.afk_message.s, file.notified_ids.s, file.is_afk.b, clock)

\* C14 as claimed: an otherwise valid record whose start time is present but
\* unparsable, a text that is not ISO or a value that is no text (null),
\* loads with its three other fields and the clock as start time.
C14_AnyUnparsable ==
    [][(/\ Loads /\ OtherwiseValid(file)
        /\ BadText(file.afk_start_time) \/ file.afk_start_time.t = "null")
       => Recovered]_vars

\* C14 amended: the recovery holds for a start time that is a text and not
\* an ISO timestamp; a start time that is null fails validation and
\* load_state returns the whole default state.
C14_TextRecovery ==
    [][/\ (Loads /\ OtherwiseValid(file) /\ BadText(file.afk_start_time))
             => Recovered
       /\ (Loads /\ OtherwiseValid(file) /\ file.afk_start_time.t = "null")
             => /\ io'.res.raised = "none"
                /\ io'.res.state = DefaultState(clock)]_vars

\* An active record with a message, a notified sender and a start time that
\* is no timestamp was loaded after the clock had moved.
C14_Witness ==
    /\ io.op = "load"
    /\ OtherwiseValid(file) /\ BadText(file.afk_start_time)
    /\ file.is_afk.b
    /\ io.res.state = BotState(<<"a">>, <<1>>, TRUE, MaxClock)

\* In this step task t's call of save_state ends, completed or raised
SaveEnds(t) == tasks[t].saved = "no" /\ tasks'[t].saved # "no"

\* C15: save is all-or-nothing. After a call of save_state, completed or
\* failed part-way, load_state returns the state held before the call or
\* the state passed to it.
C15_AllOrNothing ==
    [][\A t \in TaskIds :
          SaveEnds(t) =>
              \/ load_state(file', clock').state = load_state(file, clock).state
              \/ load_state(file', clock').state = tasks[t].state]_vars

\* In this step a restart ends task t
Kills(t) == tasks[t].pc # "killed" /\ tasks'[t].pc = "killed"

\* In this step the message handler t ends without a reply
Ignores(t) ==
    /\ tasks[t].kind = "msg"
    /\ tasks[t].pc \in {"start", "loaded"} /\ tasks'[t].pc = "done"

\* The directive of task d is the one the record p and the clock call for
FromRecord(d, p, now) ==
    /\ d.directive = "activated" => p.is_afk /\ d.text = p.afk_message
    /\ d.directive = "not_active" => ~p.is_afk
    /\ d.directive = "deactivated" =>
          ~p.is_afk /\ d.afk_duration = now - p.afk_start_time
    /\ d.directive = "afk_reply" =>
          /\ p.is_afk /\ d.to \in Elems(p.notified_ids)
          /\ d.text = p.afk_message
          /\ d.afk_duration = now - p.afk_start_time

C16_Durable ==
    \A t \in TaskIds :
        /\ Kills(t) => file' = file /\ session' = session
        /\ Emits(t) =>
              FromRecord(tasks'[t], load_state(file', clock').state, clock')
        /\ Ignores(t) =>
              \/ ~tasks[t].private
              \/ ~Persisted.is_afk
              \/ tasks[t].sender \in Elems(Persisted.notified_ids)

C17_NonNegative ==
    /\ load_state(file, clock).raised = "none" => Persisted.afk_start_time <= clock
    /\ \A t \in TaskIds :
          /\ tasks[t].afk_duration >= 0
          /\ tasks[t].pc \in {"loaded", "tosave", "saved"} =>
                tasks[t].state.afk_start_time <= clock

\* An auto-reply reported one tick for a record whose start time was
\* replaced by the clock when it was loaded.
C17_Witness ==
    \E t \in TaskIds :
        /\ tasks[t].directive = "afk_reply"
        /\ session = 0
        /\ tasks[t].loaded.afk_start_time = 1
        /\ tasks[t].afk_duration = 1

\* Record a is what a load at time now gives when an earlier load gave b:
\* the same entries, and the same start time unless the load puts the time
\* of the load in its place
SameRecord(a, b, now) ==
    /\ a.afk_message = b.afk_message
    /\ a.notified_ids = b.notified_ids
    /\ a.is_afk = b.is_afk
    /\ a.afk_start_time = b.afk_start_time \/ a.afk_start_time = now

\* The copy a handler writes back is the record as the file holds it at the
\* moment of the write, but for the one entry the handler changed; and the
\* save of a message handler leaves the activity flag as it is on file.
C18_FreshCopy ==
    \A t \in TaskIds :
        (SaveCompletes(t) /\ tasks[t].kind \in {"msg", "unafk"}) =>
            /\ SameRecord(Persisted, tasks[t].loaded, clock)
            /\ tasks[t].kind = "msg" =>
                  load_state(file', clock').state.is_afk = Persisted.is_afk

\* The senders of all message handlers that saved in the current session are
\* in the list on file, as long as the file is the one the last save wrote.
C18_AllKept ==
    \A t \in TaskIds :
        (/\ tasks[t].kind = "msg" /\ tasks[t].saved = "ok"
         /\ tasks[t].session = session /\ file # InvalidFile)
        => tasks[t].sender \in Elems(Persisted.notified_ids)

\* C18: no lost update under concurrent dispatch. Every handler that loads
\* and saves writes back a copy that is not stale: no other handler wrote
\* between its load and its save. So a message handler never writes
\* is_afk = True over a persisted False, and the senders of message
\* handlers that are in flight together are all in notified_ids.
C18_NoLostUpdate == []C18_AllKept /\ [][C18_FreshCopy]_vars

\* Two message handlers of different senders are in flight together, both
\* waiting for their reply to go out, with both senders on file.
C18_Witness ==
    \E t1, t2 \in TaskIds :
        /\ t1 # t2
        /\ tasks[t1].kind = "msg" /\ tasks[t1].pc = "awaiting"
        /\ tasks[t2].kind = "msg" /\ tasks[t2].pc = "awaiting"
        /\ tasks[t1].sender # tasks[t2].sender
        /\ tasks[t1].saved = "ok" /\ tasks[t2].saved = "ok"
        /\ {tasks[t1].sender, tasks[t2].sender} \subseteq
               Elems(Persisted.notified_ids)

C19_Saved ==
    \A t \in TaskIds :
        (Emits(t) /\ tasks'[t].directive = "afk_reply") =>
            /\ tasks[t].saved = "ok" /\ tasks[t].session = session
            /\ file' = file
            /\ Persisted.is_afk
            /\ tasks'[t].to \in Elems(Persisted.notified_ids)

\* C19: persist before reply. When a handler emits the auto-reply to a
\* sender, its own save_state has completed and the list on file, in the
\* session the handler ran in, holds that sender.
C19_PersistBeforeReply == [][C19_Saved]_vars

\* An auto-reply to sender 2 is on its way and the list on file, which held
\* sender 1 only, holds sender 2.
C19_Witness ==
    \E t \in TaskIds :
        /\ tasks[t].directive = "afk_reply" /\ tasks[t].to = 2
        /\ tasks[t].pc = "awaiting" /\ tasks[t].session = 0
        /\ Persisted.notified_ids = <<1, 2>>

\* No identifier is on file more than once
C20_NoDuplicates ==
    Len(Persisted.notified_ids) = Cardinality(Elems(Persisted.notified_ids))

\* While the state on file stays active in the same session, no step takes
\* a member out of the list
C20_Grows ==
    (/\ Persisted.is_afk /\ load_state(file', clock').state.is_afk
     /\ session' = session)
    => Elems(Persisted.notified_ids) \subseteq
           Elems(load_state(file', clock').state.notified_ids)

\* C20: set semantics of the notified list. From a missing file or a record
\* without duplicates, notified_ids on file never holds an identifier twice,
\* and while the state stays active without a new .afk its members only
\* grow.
C20_SetSemantics == []C20_NoDuplicates /\ [][C20_Grows]_vars

\* Two messages of sender 2 were handled in an active session that had
\* notified sender 1: the first one added sender 2, the second one nothing.
C20_Witness ==
    \E t1, t2 \in TaskIds :
        /\ t1 # t2
        /\ tasks[t1].kind = "msg" /\ tasks[t1].sender = 2
        /\ tasks[t1].saved = "ok"
        /\ tasks[t2].kind = "msg" /\ tasks[t2].sender = 2
        /\ tasks[t2].private /\ tasks[t2].pc = "done"
        /\ tasks[t2].loaded.is_afk
        /\ Persisted.is_afk /\ Persisted.notified_ids = <<1, 2>>

====
